---------------------------- MODULE Spec2Model ----------------------------
(***************************************************************************)
(* The caption pipeline of src/test.py (main and seconds_to_srt_timestamp):*)
(* Whisper transcription, re-chunking of the transcript into fixed-size    *)
(* word groups with interpolated times, title generation, and the four     *)
(* ffmpeg invocations (burn, stack, overlay, split).                       *)
(*                                                                         *)
(* Times are Python floats.  A float is modelled as a record [m, e] that   *)
(* stands for m * 2^e, with the IEEE-754 rule of the source's arithmetic   *)
(* (every operation is computed exactly and then rounded to the nearest    *)
(* representable value, ties to the even significand) and a significand of *)
(* Precision bits in place of binary64's 53.                               *)
(*                                                                         *)
(* A text is a sequence of atoms: " " is a whitespace character, any other *)
(* atom is an indivisible run of non-whitespace characters.                *)
(***************************************************************************)
EXTENDS Integers, Sequences, FiniteSets, TLC

VARIABLES
    include_subtitles,      \* test.py:36
    do_chunk_splitting,     \* test.py:37
    do_clickbait_title,     \* test.py:38
    chunk_size,             \* test.py:69
    pc,                     \* the section of main() about to run
    segments,               \* result["segments"], test.py:55
    srt_lines,              \* test.py:58
    raw_text,               \* test.py:59
    segment_counter,        \* test.py:60
    ai_title,               \* test.py:100
    main_subtitled_video,   \* test.py:30, reassigned at test.py:139
    final_video,            \* test.py:32, reassigned at test.py:197
    escaped_title,          \* test.py:166
    disk,                   \* the paths that exist on the filesystem
    calls,                  \* the collaborators and processes invoked so far
    seconds,                \* argument of seconds_to_srt_timestamp
    stamp                   \* its return value

vars == <<include_subtitles, do_chunk_splitting, do_clickbait_title, chunk_size,
          pc, segments, srt_lines, raw_text, segment_counter, ai_title,
          main_subtitled_video, final_video, escaped_title, disk, calls,
          seconds, stamp,
                   escaped_title>>

---------------------------------------------------------------------------
(* Bounds of the model.                                                    *)

\* Significand width of the modelled floats.
Precision == 4
\* Longest generated transcript text, in atoms.
MaxTextLen == 4
\* Most segments in a generated transcript.
MaxSegs == 2
\* Largest group size the segmenter is run with.
MaxChunkSize == 4
\* Most words of a generated many-word text.
MaxWords == 5

---------------------------------------------------------------------------
(* Integer helpers.                                                        *)

Abs(x) == IF x < 0 THEN -x ELSE x

Sgn(x) == IF x < 0 THEN -1 ELSE 1

Min(a, b) == IF a <= b THEN a ELSE b

Max(a, b) == IF a >= b THEN a ELSE b

RECURSIVE Pow2(_)
Pow2(k) == IF k <= 0 THEN 1 ELSE 2 * Pow2(k - 1)

RECURSIVE BitLen(_)
BitLen(a) == IF a = 0 THEN 0 ELSE 1 + BitLen(a \div 2)

---------------------------------------------------------------------------
(* Python float arithmetic (test.py:75-80), at Precision bits.             *)

\* The canonical record of m * 2^e: m odd, or zero.
RECURSIVE Norm(_, _)
Norm(m, e) ==
    IF m = 0 THEN [m |-> 0, e |-> 0]
    ELSE IF m % 2 = 0 THEN Norm(m \div 2, e + 1)
    ELSE [m |-> m, e |-> e]

\* m * 2^e rounded to Precision significant bits, ties to even.
Round(m, e) ==
    LET a == Abs(m)
        k == BitLen(a) - Precision
    IN  IF k <= 0 THEN Norm(m, e)
        ELSE LET q    == a \div Pow2(k)
                 r    == a % Pow2(k)
                 half == Pow2(k - 1)
                 up   == r > half \/ (r = half /\ q % 2 = 1)
             IN  Norm(Sgn(m) * (IF up THEN q + 1 ELSE q), e + k)

\* The float nearest to the integer t.
FromInt(t) == Round(t, 0)

\* x and y as integers over their common (smaller) exponent.
Aligned(x, y) ==
    LET lo == Min(x.e, y.e)
    IN  [a |-> x.m * Pow2(x.e - lo), b |-> y.m * Pow2(y.e - lo), e |-> lo]

\* x + y
FlAdd(x, y) == LET al == Aligned(x, y) IN Round(al.a + al.b, al.e)

\* x - y
FlSub(x, y) == LET al == Aligned(x, y) IN Round(al.a - al.b, al.e)

\* i * x for an int i
FlMul(i, x) == Round(i * x.m, x.e)

\* x / n for an int n > 0: the quotient is taken to Precision + 2 bits and
\* more, with a sticky bit for the remainder, and rounded once.
FlDiv(x, n) ==
    LET s  == Precision + 2 + BitLen(n)
        a  == Abs(x.m) * Pow2(s)
        q  == a \div n
        st == IF a % n = 0 THEN 0 ELSE 1
    IN  Round(Sgn(x.m) * (2 * q + st), x.e - s - 1)

\* x <= y and x < y
FlLe(x, y) == LET al == Aligned(x, y) IN al.a <= al.b

FlLt(x, y) == LET al == Aligned(x, y) IN al.a < al.b

---------------------------------------------------------------------------
(* str.strip, str.split, " ".join and str.replace (test.py:65, 68, 83,     *)
(* 166).                                                                   *)

RECURSIVE LStrip(_)
LStrip(t) == IF t # <<>> /\ Head(t) = " " THEN LStrip(Tail(t)) ELSE t

RECURSIVE RStrip(_)
RStrip(t) ==
    IF t # <<>> /\ t[Len(t)] = " " THEN RStrip(SubSeq(t, 1, Len(t) - 1)) ELSE t

Strip(t) == RStrip(LStrip(t))

\* cur is the word being read, acc the words already closed.
RECURSIVE SplitFrom(_, _, _)
SplitFrom(t, cur, acc) ==
    IF t = <<>> THEN (IF cur = <<>> THEN acc ELSE Append(acc, cur))
    ELSE IF Head(t) = " "
         THEN SplitFrom(Tail(t), <<>>, IF cur = <<>> THEN acc ELSE Append(acc, cur))
         ELSE SplitFrom(Tail(t), Append(cur, Head(t)), acc)

Split(t) == SplitFrom(t, <<>>, <<>>)

RECURSIVE Join(_)
Join(ws) ==
    IF ws = <<>> THEN <<>>
    ELSE IF Len(ws) = 1 THEN ws[1]
    ELSE ws[1] \o <<" ">> \o Join(Tail(ws))

\* t.replace(old, new), for old one character and new a text.
RECURSIVE Replace(_, _, _)
Replace(t, old, new) ==
    IF t = <<>> THEN <<>>
    ELSE (IF Head(t) = old THEN new ELSE <<Head(t)>>) \o Replace(Tail(t), old, new)

\* test.py:166: a backslash is put before every single quote, then before
\* every double quote; nothing else changes.
Escape(t) == Replace(Replace(t, "'", <<"\\", "'">>), "\"", <<"\\", "\"">>)

---------------------------------------------------------------------------
(* seconds_to_srt_timestamp (test.py:225-231).  The argument is the        *)
(* rational num / den, num >= 0.                                           *)

\* round(a / b) of Python 3: to nearest, ties to even.
RoundHalfEven(a, b) ==
    LET q == a \div b
        r == a % b
    IN  IF 2 * r > b \/ (2 * r = b /\ q % 2 = 1) THEN q + 1 ELSE q

\* The decimal digits of n >= 0, most significant first ("0" for 0).
RECURSIVE Digits(_)
Digits(n) == IF n < 10 THEN <<n>> ELSE Append(Digits(n \div 10), n % 10)

\* format(n, "0w"): zero-padded to at least w digits, never truncated.
RECURSIVE ZeroPad(_, _)
ZeroPad(d, w) == IF Len(d) >= w THEN d ELSE ZeroPad(<<0>> \o d, w)

seconds_to_srt_timestamp(num, den) ==
    LET hours   == num \div (3600 * den)
        minutes == (num % (3600 * den)) \div (60 * den)
        secs    == (num % (60 * den)) \div den
        millis  == RoundHalfEven((num - den * (num \div den)) * 1000, den)
    IN  [hh  |-> ZeroPad(Digits(hours), 2),
         mm  |-> ZeroPad(Digits(minutes), 2),
         ss  |-> ZeroPad(Digits(secs), 2),
         mmm |-> ZeroPad(Digits(millis), 3)]

\* The timestamp of a float.
StampOf(x) ==
    IF x.e >= 0 THEN seconds_to_srt_timestamp(x.m * Pow2(x.e), 1)
    ELSE seconds_to_srt_timestamp(x.m, Pow2(-x.e))

---------------------------------------------------------------------------
(* Configuration of main() (test.py:20-38).                                *)

main_video == "videos/main4.mp4"

bottom_video == "videos/bottom2.mp4"

subtitles_file == "temp/main_subtitles.srt"

main_subtitled_path == "temp/main_subtitled.mp4"

stacked_video == "temp/vertical_merged.mp4"

final_with_title == "temp/final_with_title.mp4"

chunk_folder == "output/chunks"

chunk_pattern == "output/chunks/chunk_%03d.mp4"

\* The group size the source uses.
ChunkSize == 4

\* A title is a text; the atoms "'", "\"" and "\\" are the characters the
\* overlay command treats specially.
DefaultTitle == <<"DEFAULT", " ", "CLICKBAIT", " ", "TITLE">>

FallbackTitle ==
    <<"You", " ", "Won", "'", "t", " ", "Believe", " ", "This", " ", "Shocking",
      " ", "Moment!">>

\* What the title model may answer, before it is stripped.
GeneratedTitles ==
    { <<"generated", " ", "title">>,
      <<" ", "It", "'", "s", " ", "\"", "wild", "\"", " ">> }

\* A title not assigned yet.
Unset == <<>>

---------------------------------------------------------------------------
(* The segment loop of main() (test.py:57-91).                             *)

\* Faulty variant of NumChunks: the division rounds down.
NumChunksFloor(n_words, cs) == n_words \div cs

\* test.py:72
NumChunks(n_words, cs) == (n_words + cs - 1) \div cs

\* Faulty variant of SubChunkDuration: the duration is not divided.
SubChunkDurationWhole(seg, num_chunks) == FlSub(seg.end, seg.start)

\* test.py:75-76
SubChunkDuration(seg, num_chunks) ==
    FlDiv(FlSub(seg.end, seg.start), Max(num_chunks, 1))

\* test.py:79, for the loop index i = 0, 1, ...
ChunkStart(seg, i, sub_chunk_duration) ==
    FlAdd(seg.start, FlMul(i, sub_chunk_duration))

\* test.py:80
ChunkEnd(seg, i, sub_chunk_duration) ==
    FlAdd(seg.start, FlMul(i + 1, sub_chunk_duration))

\* test.py:82: words[i * cs : (i + 1) * cs]; a slice stops at the end of the list.
ChunkWords(words, i, cs) ==
    SubSeq(words, i * cs + 1, Min((i + 1) * cs, Len(words)))

\* The lines one segment appends (test.py:63-91).  si is the position of the
\* segment in the transcript and counter the value of segment_counter when
\* the segment is reached.  Beside the fields written to the file (index,
\* start_ts, end_ts, text) a line keeps the floats they were formatted from
\* and the segment it came from.
SegmentLines(seg, si, counter, cs) ==
    LET words              == Split(Strip(seg.text))
        num_chunks         == NumChunks(Len(words), cs)
        sub_chunk_duration == SubChunkDuration(seg, num_chunks)
    IN  [j \in 1..num_chunks |->
            LET chunk_start == ChunkStart(seg, j - 1, sub_chunk_duration)
                chunk_end   == ChunkEnd(seg, j - 1, sub_chunk_duration)
            IN  [index       |-> counter + j - 1,
                 start_ts    |-> StampOf(chunk_start),
                 end_ts      |-> StampOf(chunk_end),
                 text        |-> Join(ChunkWords(words, j - 1, cs)),
                 chunk_start |-> chunk_start,
                 chunk_end   |-> chunk_end,
                 seg         |-> si]]

\* The outer loop (test.py:62), from segment si on.
RECURSIVE SegmentLoop(_, _, _, _)
SegmentLoop(segs, si, lines, cs) ==
    IF si > Len(segs) THEN lines
    ELSE SegmentLoop(segs, si + 1,
                     lines \o SegmentLines(segs[si], si, Len(lines) + 1, cs), cs)

---------------------------------------------------------------------------
(* Inputs.                                                                 *)

WordAtoms == <<"one", "two", "three", "four", "five", "six", "seven">>

\* The text of the first k words, single-spaced.
NWords(k) == Join([i \in 1..k |-> <<WordAtoms[i]>>])

Alphabet == {"a", "b", " "}

\* Every text of at most MaxTextLen atoms.
ShortTexts == UNION {[1..n -> Alphabet] : n \in 0..MaxTextLen}

ManyWordTexts == {NWords(k) : k \in 0..MaxWords}

\* Every float that is a whole number of seconds below 2^Precision.
Times == {FromInt(t) : t \in 0..(Pow2(Precision) - 1)}

FewTimes == {FromInt(t) : t \in {0, 1, 3}}

MkSeg(s, e, t) == [start |-> s, end |-> e, text |-> t]

\* Segments that vary the times, and segments that vary the text.
WideSegs ==
    {MkSeg(s, e, t) : s \in Times, e \in Times, t \in ManyWordTexts}
    \cup {MkSeg(s, e, t) : s \in FewTimes, e \in FewTimes, t \in ShortTexts}

NarrowSegs ==
    {MkSeg(FromInt(s), FromInt(s + 2), t) :
        s \in {0, 2}, t \in {<<>>, <<" ">>, <<" ", "a">>, NWords(5)}}

Ordered(segs) ==
    \A i \in 1..(Len(segs) - 1) : FlLe(segs[i].start, segs[i + 1].start)

\* The transcripts the segmenter is run on.
Transcripts ==
    {<<>>} \cup {<<s>> : s \in WideSegs}
    \cup {segs \in UNION {[1..n -> NarrowSegs] : n \in 2..MaxSegs} : Ordered(segs)}

\* The transcripts the whole pipeline is run on.
PipelineTranscripts ==
    { <<>>,
      <<MkSeg(FromInt(0), FromInt(2), <<" ">> \o NWords(5))>>,
      <<MkSeg(FromInt(0), FromInt(3), NWords(2)), MkSeg(FromInt(3), FromInt(3), <<>>),
        MkSeg(FromInt(4), FromInt(7), NWords(5))>> }

---------------------------------------------------------------------------
(* main() of test.py, one action per section.                              *)

\* One entry of calls: a collaborator called or a process spawned, the paths
\* it reads (in argument order), the path it writes, the inputs that did not
\* exist when it started, and whether it succeeded (exit status 0, or no
\* exception).
Call(tool, inputs, out, ok) ==
    [tool    |-> tool,
     inputs  |-> inputs,
     out     |-> out,
     missing |-> {inputs[i] : i \in 1..Len(inputs)} \ disk,
     ok      |-> ok]

\* The outcomes of a tool that reads files: it cannot succeed when an input
\* file does not exist; otherwise it may succeed (exit status 0) or fail.
Outcomes(inputs) ==
    IF {inputs[i] : i \in 1..Len(inputs)} \subseteq disk THEN BOOLEAN ELSE {FALSE}

\* An uncaught exception ends main() with the disk as it is: d, the paths
\* that exist when it is raised.  The faulty variant removes the temporary
\* artifacts.
AbortWithCleanup(d) ==
    /\ pc' = "Aborted"
    /\ disk' = d \cap {main_video, bottom_video}

Abort(d) ==
    /\ pc' = "Aborted"
    /\ disk' = d

\* (B) test.py:43-55.  model.transcribe raises when the video is missing or
\* cannot be decoded.
Transcribe(inputs) ==
    /\ pc = "Transcribing"
    /\ \/ /\ TRUE \in Outcomes(<<main_video>>)
          /\ calls' = Append(calls, Call("whisper", <<main_video>>, "", TRUE))
          /\ \E segs \in inputs : segments' = segs
          /\ pc' = "Segmenting"
          /\ disk' = disk
       \/ /\ calls' = Append(calls, Call("whisper", <<main_video>>, "", FALSE))
          /\ segments' = segments
          /\ Abort(disk)
    /\ UNCHANGED <<include_subtitles, do_chunk_splitting, do_clickbait_title,
                   chunk_size, srt_lines, raw_text, segment_counter, ai_title,
                   main_subtitled_video, final_video, seconds, stamp,
                   escaped_title>>

\* test.py:57-97: the segment loop, then the SRT file is written.
SegmentTranscript ==
    /\ pc = "Segmenting"
    /\ srt_lines' = SegmentLoop(segments, 1, <<>>, chunk_size)
    /\ raw_text' = [i \in DOMAIN srt_lines' |-> srt_lines'[i].text]
    /\ segment_counter' = Len(srt_lines') + 1
    /\ disk' = disk \cup {subtitles_file}
    /\ pc' = "GeneratingTitle"
    /\ UNCHANGED <<include_subtitles, do_chunk_splitting, do_clickbait_title,
                   chunk_size, segments, ai_title, main_subtitled_video,
                   final_video, calls, seconds, stamp,
                   escaped_title>>

\* Faulty variant of GenerateTitle: the exception of the title model is not
\* caught.
GenerateTitleUncaught ==
    /\ pc = "GeneratingTitle"
    /\ IF do_clickbait_title
       THEN \/ /\ \E t \in GeneratedTitles : ai_title' = Strip(t)
               /\ calls' = Append(calls, Call("openai", <<>>, "", TRUE))
               /\ pc' = "BurningSubtitles"
               /\ disk' = disk
            \/ /\ ai_title' = DefaultTitle
               /\ calls' = Append(calls, Call("openai", <<>>, "", FALSE))
               /\ Abort(disk)
       ELSE /\ ai_title' = DefaultTitle
            /\ calls' = calls
            /\ pc' = "BurningSubtitles"
            /\ disk' = disk
    /\ UNCHANGED <<include_subtitles, do_chunk_splitting, do_clickbait_title,
                   chunk_size, segments, srt_lines, raw_text, segment_counter,
                   main_subtitled_video, final_video, seconds, stamp,
                   escaped_title>>

\* (C) test.py:99-118.  Any exception of the call, or of reading its answer,
\* is caught.
GenerateTitle ==
    /\ pc = "GeneratingTitle"
    /\ IF do_clickbait_title
       THEN \/ /\ \E t \in GeneratedTitles : ai_title' = Strip(t)
               /\ calls' = Append(calls, Call("openai", <<>>, "", TRUE))
            \/ /\ ai_title' = FallbackTitle
               /\ calls' = Append(calls, Call("openai", <<>>, "", FALSE))
       ELSE /\ ai_title' = DefaultTitle
            /\ calls' = calls
    /\ pc' = "BurningSubtitles"
    /\ UNCHANGED <<include_subtitles, do_chunk_splitting, do_clickbait_title,
                   chunk_size, segments, srt_lines, raw_text, segment_counter,
                   main_subtitled_video, final_video, disk, seconds, stamp,
                   escaped_title>>

\* Faulty variant of BurnSubtitles: the skipped branch leaves main_subtitled_video
\* as configured.
BurnSubtitlesStalePath ==
    /\ pc = "BurningSubtitles"
    /\ main_subtitled_video' = main_subtitled_video
    /\ IF include_subtitles
       THEN LET ins == <<main_video, subtitles_file>> IN
            \E ok \in Outcomes(ins) :
               /\ calls' = Append(calls, Call("burn", ins, main_subtitled_video, ok))
               /\ IF ok
                  THEN /\ disk' = disk \cup {main_subtitled_video}
                       /\ pc' = "Compositing"
                  ELSE Abort(disk)
       ELSE /\ calls' = calls
            /\ disk' = disk
            /\ pc' = "Compositing"
    /\ UNCHANGED <<include_subtitles, do_chunk_splitting, do_clickbait_title,
                   chunk_size, segments, srt_lines, raw_text, segment_counter,
                   ai_title, final_video, seconds, stamp,
                   escaped_title>>

\* (D) test.py:120-139.
BurnSubtitles ==
    /\ pc = "BurningSubtitles"
    /\ IF include_subtitles
       THEN LET ins == <<main_video, subtitles_file>> IN
            \E ok \in Outcomes(ins) :
               /\ calls' = Append(calls, Call("burn", ins, main_subtitled_video, ok))
               /\ main_subtitled_video' = main_subtitled_video
               /\ IF ok
                  THEN /\ disk' = disk \cup {main_subtitled_video}
                       /\ pc' = "Compositing"
                  ELSE Abort(disk)
       ELSE /\ main_subtitled_video' = main_video
            /\ calls' = calls
            /\ disk' = disk
            /\ pc' = "Compositing"
    /\ UNCHANGED <<include_subtitles, do_chunk_splitting, do_clickbait_title,
                   chunk_size, segments, srt_lines, raw_text, segment_counter,
                   ai_title, final_video, seconds, stamp,
                   escaped_title>>

\* (E) test.py:141-162.
StackVideos ==
    /\ pc = "Compositing"
    /\ LET ins == <<main_subtitled_video, bottom_video>> IN
       \E ok \in Outcomes(ins) :
          /\ calls' = Append(calls, Call("stack", ins, stacked_video, ok))
          /\ IF ok
             THEN /\ disk' = disk \cup {stacked_video}
                  /\ pc' = "OverlayingTitle"
             ELSE Abort(disk)
    /\ UNCHANGED <<include_subtitles, do_chunk_splitting, do_clickbait_title,
                   chunk_size, segments, srt_lines, raw_text, segment_counter,
                   ai_title, main_subtitled_video, final_video, seconds, stamp,
                   escaped_title>>

\* Faulty variant of OverlayTitle: the failure of the overlay is not caught.
OverlayTitleUncaught ==
    /\ pc = "OverlayingTitle"
    /\ escaped_title' = Escape(ai_title)
    /\ LET ins == <<stacked_video>> IN
       \E ok \in Outcomes(ins) :
          /\ calls' = Append(calls, Call("overlay", ins, final_video, ok))
          /\ final_video' = final_video
          /\ IF ok
             THEN /\ disk' = disk \cup {final_video}
                  /\ pc' = "Chunking"
             ELSE Abort(disk)
    /\ UNCHANGED <<include_subtitles, do_chunk_splitting, do_clickbait_title,
                   chunk_size, segments, srt_lines, raw_text, segment_counter,
                   ai_title, main_subtitled_video, seconds, stamp>>

\* Faulty variant of OverlayTitle: a failed overlay goes back to stacking.
OverlayTitleRestack ==
    /\ pc = "OverlayingTitle"
    /\ escaped_title' = Escape(ai_title)
    /\ LET ins == <<stacked_video>> IN
       \E ok \in Outcomes(ins) :
          /\ calls' = Append(calls, Call("overlay", ins, final_video, ok))
          /\ final_video' = final_video
          /\ IF ok
             THEN /\ disk' = disk \cup {final_video}
                  /\ pc' = "Chunking"
             ELSE /\ disk' = disk
                  /\ pc' = "Compositing"
    /\ UNCHANGED <<include_subtitles, do_chunk_splitting, do_clickbait_title,
                   chunk_size, segments, srt_lines, raw_text, segment_counter,
                   ai_title, main_subtitled_video, seconds, stamp>>

\* (F) test.py:164-197.  CalledProcessError is caught: the stacked video
\* becomes the final video.
OverlayTitle ==
    /\ pc = "OverlayingTitle"
    /\ escaped_title' = Escape(ai_title)
    /\ LET ins == <<stacked_video>> IN
       \E ok \in Outcomes(ins) :
          /\ calls' = Append(calls, Call("overlay", ins, final_video, ok))
          /\ IF ok
             THEN /\ disk' = disk \cup {final_video}
                  /\ final_video' = final_video
             ELSE /\ disk' = disk
                  /\ final_video' = stacked_video
    /\ pc' = "Chunking"
    /\ UNCHANGED <<include_subtitles, do_chunk_splitting, do_clickbait_title,
                   chunk_size, segments, srt_lines, raw_text, segment_counter,
                   ai_title, main_subtitled_video, seconds, stamp>>

\* (G) test.py:199-223.
SplitChunks ==
    /\ pc = "Chunking"
    /\ IF do_chunk_splitting
       THEN LET ins == <<final_video>> IN
            \E ok \in Outcomes(ins) :
               /\ calls' = Append(calls, Call("split", ins, chunk_pattern, ok))
               /\ IF ok
                  THEN /\ disk' = disk \cup {chunk_folder, chunk_pattern}
                       /\ pc' = "Done"
                  ELSE Abort(disk \cup {chunk_folder})
       ELSE /\ calls' = calls
            /\ disk' = disk
            /\ pc' = "Done"
    /\ UNCHANGED <<include_subtitles, do_chunk_splitting, do_clickbait_title,
                   chunk_size, segments, srt_lines, raw_text, segment_counter,
                   ai_title, main_subtitled_video, final_video, seconds, stamp,
                   escaped_title>>

---------------------------------------------------------------------------
(* Specifications.                                                         *)

NoSeconds == [num |-> 0, den |-> 1]

InitRun ==
    /\ pc = "Transcribing"
    /\ segments = <<>>
    /\ srt_lines = <<>>
    /\ raw_text = <<>>
    /\ segment_counter = 1
    /\ ai_title = Unset
    /\ escaped_title = Unset
    /\ main_subtitled_video = main_subtitled_path
    /\ final_video = final_with_title
    /\ calls = <<>>
    /\ seconds = NoSeconds
    /\ stamp = <<>>

\* The whole pipeline, for every setting of the toggles, with the input
\* videos present or not.
Init ==
    /\ InitRun
    /\ include_subtitles \in BOOLEAN
    /\ do_chunk_splitting \in BOOLEAN
    /\ do_clickbait_title \in BOOLEAN
    /\ chunk_size = ChunkSize
    /\ disk \in SUBSET {main_video, bottom_video}

Next ==
    \/ Transcribe(PipelineTranscripts)
    \/ SegmentTranscript
    \/ GenerateTitle
    \/ BurnSubtitles
    \/ StackVideos
    \/ OverlayTitle
    \/ SplitChunks

Spec == Init /\ [][Next]_vars

\* The same runs, none of which stops in front of section (G): once the
\* overlay is over main() goes on to the split, and the split process ends.
FairSpec == Spec /\ WF_vars(SplitChunks)

\* The segmenter alone, on every transcript of Transcripts and every group
\* size up to MaxChunkSize.
InitSeg ==
    /\ InitRun
    /\ include_subtitles = TRUE
    /\ do_chunk_splitting = TRUE
    /\ do_clickbait_title = TRUE
    /\ chunk_size \in 1..MaxChunkSize
    /\ disk = {main_video, bottom_video}

NextSeg ==
    \/ Transcribe(Transcripts)
    \/ SegmentTranscript

SpecSeg == InitSeg /\ [][NextSeg]_vars

\* seconds_to_srt_timestamp alone.  An input is a whole number of seconds
\* plus a fraction in units of 1/TsDen second.
TsDen == 4 * 1000

WholeSeconds == {0, 1, 59, 60, 61, 3599, 3600, 3661, 86399, 360000}

Fractions == {0, 1, 2, 3, 5, 6, 7, 1998, 2000, 2002, 3996, 3997, 3998, 3999}

TsInputs ==
    {[num |-> w * TsDen + f, den |-> TsDen] : w \in WholeSeconds, f \in Fractions}

InitTs ==
    /\ pc = "Encoding"
    /\ seconds \in TsInputs
    /\ stamp = <<>>
    /\ include_subtitles = TRUE
    /\ do_chunk_splitting = TRUE
    /\ do_clickbait_title = TRUE
    /\ chunk_size = ChunkSize
    /\ segments = <<>>
    /\ srt_lines = <<>>
    /\ raw_text = <<>>
    /\ segment_counter = 1
    /\ ai_title = Unset
    /\ escaped_title = Unset
    /\ main_subtitled_video = main_subtitled_path
    /\ final_video = final_with_title
    /\ disk = {}
    /\ calls = <<>>

EncodeTimestamp ==
    /\ pc = "Encoding"
    /\ stamp' = seconds_to_srt_timestamp(seconds.num, seconds.den)
    /\ pc' = "Encoded"
    /\ UNCHANGED <<include_subtitles, do_chunk_splitting, do_clickbait_title,
                   chunk_size, segments, srt_lines, raw_text, segment_counter,
                   ai_title, main_subtitled_video, final_video, disk, calls,
                   seconds, escaped_title>>

NextTs == EncodeTimestamp

SpecTs == InitTs /\ [][NextTs]_vars

---------------------------------------------------------------------------
(* Claims about the pipeline (specification Spec).                         *)

Tools(i) == calls[i].tool

Failed(tool) == \E i \in DOMAIN calls : Tools(i) = tool /\ ~calls[i].ok

Succeeded(tool) == \E i \in DOMAIN calls : Tools(i) = tool /\ calls[i].ok

LastCall == calls[Len(calls)]

\* C1, as stated: whenever the overlay process has failed, the final video
\* is the stacked video, a split reads the stacked video, and the run is
\* not aborted (it is on its way to Done, or there).
C1_AsStated ==
    Failed("overlay") =>
        /\ final_video = stacked_video
        /\ \A i \in DOMAIN calls :
               Tools(i) = "split" => calls[i].inputs = <<stacked_video>>
        /\ pc \in {"Chunking", "Done"}

\* What holds in every state once the overlay process has failed.
C1_FallbackState ==
    Failed("overlay") =>
        /\ final_video = stacked_video
        /\ \A i \in DOMAIN calls :
               Tools(i) = "split" => calls[i].inputs = <<stacked_video>>
        /\ \/ pc \in {"Chunking", "Done"}
           \/ /\ pc = "Aborted"
              /\ LastCall.tool = "split"
              /\ ~LastCall.ok
        /\ (pc = "Done" /\ do_chunk_splitting) => Succeeded("split")

\* C1, amended: whenever the overlay process has failed, the final video is
\* the stacked video, a split reads the stacked video, and the run goes on
\* to Chunking; it reaches Done unless the split that follows fails itself,
\* which is the only way it is aborted.
C1_OverlayFallback ==
    /\ []C1_FallbackState
    /\ Failed("overlay") ~> (pc = "Done" \/ Failed("split"))

C1_Witness ==
    /\ Failed("overlay")
    /\ pc = "Done"
    /\ LastCall = [tool |-> "split", inputs |-> <<stacked_video>>,
                   out |-> chunk_pattern, missing |-> {}, ok |-> TRUE]

\* C2: with do_clickbait_title false no overlay process is ever spawned and
\* the final video is the stacked video.
C2_OverlayOnlyIfEnabled ==
    ~do_clickbait_title =>
        /\ \A i \in DOMAIN calls : Tools(i) # "overlay"
        /\ pc \in {"Chunking", "Done"} => final_video = stacked_video

\* C3: with include_subtitles false no burn process is spawned, the top
\* input of every stack process is the main video and no process reads the
\* burn artifact; with include_subtitles true the top input of the stack
\* process is the output of the burn process, which succeeded before it.
C3_CompositeTopInput ==
    /\ ~include_subtitles =>
           \A i \in DOMAIN calls :
               /\ Tools(i) # "burn"
               /\ \A k \in DOMAIN calls[i].inputs :
                      calls[i].inputs[k] # main_subtitled_path
               /\ Tools(i) = "stack" => calls[i].inputs[1] = main_video
    /\ include_subtitles =>
           \A i \in DOMAIN calls :
               Tools(i) = "stack" =>
                   \E j \in 1..(i - 1) :
                       /\ Tools(j) = "burn"
                       /\ calls[j].ok
                       /\ calls[j].inputs = <<main_video, subtitles_file>>
                       /\ calls[j].out = calls[i].inputs[1]

C3_Witness ==
    /\ ~include_subtitles
    /\ pc = "Done"
    /\ \E i \in DOMAIN calls :
           /\ Tools(i) = "stack"
           /\ calls[i].ok
           /\ calls[i].inputs = <<main_video, bottom_video>>

FatalTools == {"whisper", "burn", "stack", "split"}

\* C4: a failed transcription, burn, stack or split is the last thing the
\* run does and leaves it aborted, never Done; a run is aborted by nothing
\* else (a failed overlay or title generation does not abort it); and the
\* output of every process that succeeded, and the subtitle file once it is
\* written, are still on the disk, also after the abort.
C4_FatalAborts ==
    /\ \A i \in DOMAIN calls :
           (Tools(i) \in FatalTools /\ ~calls[i].ok) =>
               /\ i = Len(calls)
               /\ pc = "Aborted"
    /\ pc = "Aborted" =>
           /\ calls # <<>>
           /\ LastCall.tool \in FatalTools
           /\ ~LastCall.ok
    /\ \A i \in DOMAIN calls :
           (calls[i].ok /\ calls[i].out # "") => calls[i].out \in disk
    /\ Succeeded("whisper") /\ pc # "Segmenting" => subtitles_file \in disk

C4_Witness ==
    /\ pc = "Aborted"
    /\ Succeeded("burn")
    /\ LastCall.tool = "stack"
    /\ ~LastCall.ok
    /\ {subtitles_file, main_subtitled_path} \subseteq disk

\* The order of the sections of main().
StageRank(stage) ==
    CASE stage = "Transcribing"     -> 1
      [] stage = "Segmenting"       -> 2
      [] stage = "GeneratingTitle"  -> 3
      [] stage = "BurningSubtitles" -> 4
      [] stage = "Compositing"      -> 5
      [] stage = "OverlayingTitle"  -> 6
      [] stage = "Chunking"         -> 7
      [] stage = "Done"             -> 8
      [] stage = "Aborted"          -> 9

ToolRank(tool) ==
    CASE tool = "whisper" -> 1
      [] tool = "openai"  -> 3
      [] tool = "burn"    -> 4
      [] tool = "stack"   -> 5
      [] tool = "overlay" -> 6
      [] tool = "split"   -> 7

\* The order the claim gives: title generation is part of OverlayingTitle.
ClaimedToolRank(tool) ==
    CASE tool = "whisper" -> 1
      [] tool = "burn"    -> 2
      [] tool = "stack"   -> 3
      [] tool = "openai"  -> 4
      [] tool = "overlay" -> 5
      [] tool = "split"   -> 6

\* C5, as stated: the collaborators and processes are invoked in the order
\* whisper, burn, stack, title generation, overlay, split, each at most
\* once; so the title-generation collaborator is called only after
\* compositing has completed.
C5_AsStated ==
    \A i \in DOMAIN calls :
        /\ \A j \in 1..(i - 1) :
               ClaimedToolRank(Tools(j)) < ClaimedToolRank(Tools(i))
        /\ Tools(i) = "openai" =>
               \E j \in 1..(i - 1) : Tools(j) = "stack" /\ calls[j].ok

\* C5, amended: every step moves to a later section (none is entered twice,
\* none is gone back to); the collaborators and processes are invoked in the
\* order whisper, title generation, burn, stack, overlay, split, each at most
\* once and each from its own section; so the title-generation collaborator
\* is called after Segmenting and before BurningSubtitles and Compositing.
C5_StageOrder ==
    /\ [][StageRank(pc') > StageRank(pc)]_vars
    /\ [](\A i \in DOMAIN calls :
              /\ \A j \in 1..(i - 1) : ToolRank(Tools(j)) < ToolRank(Tools(i))
              /\ ToolRank(Tools(i)) < StageRank(pc))
    /\ [](Succeeded("stack") => (do_clickbait_title <=> Tools(2) = "openai"))

C5_Witness ==
    /\ pc = "Done"
    /\ [i \in DOMAIN calls |-> Tools(i)]
           = <<"whisper", "openai", "burn", "stack", "overlay", "split">>

FfmpegTools == {"burn", "stack", "overlay", "split"}

\* C10: no ffmpeg process is spawned while one of the files it reads does
\* not exist.
C10_InputsCheckedBeforeSpawn ==
    \A i \in DOMAIN calls : Tools(i) \in FfmpegTools => calls[i].missing = {}

\* The text the overlay command is given for the title substituted when the
\* title model fails, written out character by character.
EscapedFallbackTitle ==
    <<"You", " ", "Won", "\\", "'", "t", " ", "Believe", " ", "This", " ",
      "Shocking", " ", "Moment!">>

\* C11: once the title model has failed, the title is the fixed substitute
\* (escaped for the overlay command when the overlay is reached, with nothing
\* else changed); while the failed title call is the last call made, the
\* run is in the burn section or, the burn skipped, in the stack section;
\* and the run is aborted afterwards only by the failure of a later process
\* (burn, stack or split), never by the failed title call.
C11_TitleFailureRecovered ==
    Failed("openai") =>
        /\ ai_title = FallbackTitle
        /\ LastCall.tool = "openai" =>
               \/ pc = "BurningSubtitles"
               \/ pc = "Compositing" /\ ~include_subtitles
        /\ pc = "Aborted" => LastCall.tool \in {"burn", "stack", "split"}
        /\ pc \in {"Chunking", "Done"} =>
               /\ \E i \in DOMAIN calls : Tools(i) = "overlay"
               /\ escaped_title = EscapedFallbackTitle
        /\ (\E i \in DOMAIN calls : Tools(i) = "overlay") =>
               escaped_title = EscapedFallbackTitle

\* A run that lost its title call, overlaid the substitute and finished.
C11_Witness ==
    /\ Failed("openai")
    /\ Succeeded("overlay")
    /\ escaped_title = EscapedFallbackTitle
    /\ pc = "Done"

---------------------------------------------------------------------------
(* Claims about the segmenter (specification SpecSeg).                     *)

Segmented == pc = "GeneratingTitle"

\* The lines that came from segment si, in emission order.
LinesOf(si) == SelectSeq(srt_lines, LAMBDA l : l.seg = si)

\* The exact value of x - y, and of k * x (no rounding).
ExactDiff(x, y) == LET al == Aligned(x, y) IN Norm(al.a - al.b, al.e)

Scaled(k, x) == Norm(k * x.m, x.e)

\* The global indices are 1, 2, 3, ... in emission order, and the lines are
\* emitted segment by segment.
DenseIndices ==
    /\ \A i \in DOMAIN srt_lines : srt_lines[i].index = i
    /\ \A i, j \in DOMAIN srt_lines : i < j => srt_lines[i].seg <= srt_lines[j].seg
    /\ segment_counter = Len(srt_lines) + 1

\* C6: when every segment of the transcript has start < end, every emitted
\* cue starts no earlier than its segment starts and ends no later than its
\* segment ends, and the cue indices are 1, 2, 3, ... in emission order.
C6_CuesWithinSegment ==
    (Segmented /\ \A si \in DOMAIN segments :
                      FlLt(segments[si].start, segments[si].end)) =>
        /\ \A i \in DOMAIN srt_lines :
               LET l   == srt_lines[i]
                   seg == segments[l.seg]
               IN  /\ FlLe(seg.start, l.chunk_start)
                   /\ FlLe(l.chunk_end, seg.end)
        /\ DenseIndices

\* The words of a text, read off the text itself: a word starts at every
\* non-space atom that is first or follows a space, and runs to the atom
\* before the next space.
WordStarts(t) ==
    {p \in DOMAIN t : t[p] # " " /\ (p = 1 \/ t[p - 1] = " ")}

WordFrom(t, p) ==
    LET q == CHOOSE q \in p..Len(t) :
                 /\ \A r \in p..q : t[r] # " "
                 /\ (q = Len(t) \/ t[q + 1] = " ")
    IN  SubSeq(t, p, q)

WordList(t) ==
    LET starts == WordStarts(t)
        nth(n) == CHOOSE p \in starts : Cardinality({x \in starts : x < p}) = n - 1
    IN  [n \in 1..Cardinality(starts) |-> WordFrom(t, nth(n))]

\* The atoms of a text that are not spaces, plus one space between words.
SingleSpaced(t) ==
    /\ t # <<>> => (t[1] # " " /\ t[Len(t)] # " ")
    /\ \A p \in 1..(Len(t) - 1) : ~(t[p] = " " /\ t[p + 1] = " ")

\* C7: a segment with k words yields n cues, n the least number with
\* n * chunk_size >= k (none when k = 0); every cue holds at least one and at
\* most chunk_size words, all but the last exactly chunk_size, single-spaced;
\* cue j holds words (j-1)*chunk_size+1 .. j*chunk_size of the segment, so
\* the cues together hold the segment's words in order; and the global
\* indices stay 1, 2, 3, ... whatever segments are empty.
C7_WordGroups ==
    Segmented =>
        /\ \A si \in DOMAIN segments :
               LET ws == WordList(segments[si].text)
                   k  == Len(ws)
                   ls == LinesOf(si)
                   n  == Len(ls)
               IN  /\ n * chunk_size >= k
                   /\ (n - 1) * chunk_size < k
                   /\ \A j \in 1..n :
                          LET cw == WordList(ls[j].text)
                          IN  /\ Len(cw) >= 1
                              /\ Len(cw) <= chunk_size
                              /\ j < n => Len(cw) = chunk_size
                              /\ cw = SubSeq(ws, (j - 1) * chunk_size + 1,
                                             Min(j * chunk_size, k))
                              /\ SingleSpaced(ls[j].text)
        /\ DenseIndices
        /\ raw_text = [i \in DOMAIN srt_lines |-> srt_lines[i].text]

C7_Witness ==
    /\ Segmented
    /\ chunk_size = 3
    /\ Len(segments) = 2
    /\ segments[1].text = <<" ">>
    /\ LinesOf(1) = <<>>
    /\ Len(LinesOf(2)) = 2
    /\ srt_lines[1].index = 1
    /\ srt_lines[2].text = <<"four", " ", "five">>

\* The case of C8: one segment "one two three four five", start < end,
\* groups of three.
C8_Case ==
    /\ Segmented
    /\ chunk_size = 3
    /\ Len(segments) = 1
    /\ segments[1].text = NWords(5)
    /\ FlLt(segments[1].start, segments[1].end)

C8_Texts ==
    /\ Len(srt_lines) = 2
    /\ srt_lines[1].text = <<"one", " ", "two", " ", "three">>
    /\ srt_lines[2].text = <<"four", " ", "five">>

CueDuration(l) == ExactDiff(l.chunk_end, l.chunk_start)

\* C8, as stated: the two cues are "one two three" and "four five" and
\* their durations are in ratio 3:2.
C8_AsStated ==
    C8_Case =>
        /\ C8_Texts
        /\ Scaled(2, CueDuration(srt_lines[1])) = Scaled(3, CueDuration(srt_lines[2]))

\* m * 2^e is a float: rounding leaves it as it is.
Representable(m, e) == Round(m, e) = Norm(m, e)

\* end - start and the midpoint (start + end) / 2 of the segment are floats.
MidpointExact(seg) ==
    LET al == Aligned(seg.start, seg.end)
    IN  /\ Representable(al.b - al.a, al.e)
        /\ Representable(al.a + al.b, al.e - 1)

\* C8, amended: the two cues are "one two three" and "four five"; the first
\* starts where the segment starts and the second starts where the first
\* ends; and when the segment's duration and midpoint are floats, the cues
\* meet at the midpoint and the second ends where the segment ends: their
\* durations are equal (1:1), each half of the segment's.
C8_EqualSlices ==
    C8_Case =>
        /\ C8_Texts
        /\ srt_lines[1].chunk_start = segments[1].start
        /\ srt_lines[2].chunk_start = srt_lines[1].chunk_end
        /\ MidpointExact(segments[1]) =>
               /\ srt_lines[2].chunk_end = segments[1].end
               /\ CueDuration(srt_lines[1]) = CueDuration(srt_lines[2])
               /\ Scaled(2, CueDuration(srt_lines[1]))
                      = ExactDiff(segments[1].end, segments[1].start)

C8_Witness ==
    /\ C8_Case
    /\ C8_Texts
    /\ segments[1].start = FromInt(0)
    /\ segments[1].end = FromInt(10)
    /\ MidpointExact(segments[1])
    /\ CueDuration(srt_lines[1]) = FromInt(5)
    /\ CueDuration(srt_lines[2]) = FromInt(5)

\* C12: the segment loop does not run to its end on a transcript that has a
\* segment with end <= start, and every cue it emits ends strictly after it
\* starts.
C12_InvalidSegmentRejected ==
    Segmented =>
        /\ \A si \in DOMAIN segments :
               FlLt(segments[si].start, segments[si].end)
        /\ \A i \in DOMAIN srt_lines :
               FlLt(srt_lines[i].chunk_start, srt_lines[i].chunk_end)

---------------------------------------------------------------------------
(* Claims about seconds_to_srt_timestamp (specification SpecTs).           *)

\* The number a digit string writes.
RECURSIVE Number(_)
Number(d) == IF d = <<>> THEN 0 ELSE 10 * Number(SubSeq(d, 1, Len(d) - 1)) + d[Len(d)]

\* The instant a timestamp writes: whole seconds and milliseconds.
Decode(ts) ==
    [s  |-> (Number(ts.hh) * 60 + Number(ts.mm)) * 60 + Number(ts.ss),
     ms |-> Number(ts.mmm)]

\* Decode(ts) - num / den, in units of 1 / (1000 * den) second.
DecodeError(ts, num, den) ==
    (Decode(ts).s - num \div den) * 1000 * den
        + Decode(ts).ms * den - 1000 * (num % den)

\* C9: the millisecond field of every timestamp is three digits (000..999),
\* the seconds and minutes fields are two digits below 60, and the instant
\* written is within half a millisecond of the argument.
C9_MillisCarry ==
    pc = "Encoded" =>
        /\ Len(stamp.mmm) = 3
        /\ Number(stamp.mmm) <= 999
        /\ Len(stamp.ss) = 2 /\ Number(stamp.ss) <= 59
        /\ Len(stamp.mm) = 2 /\ Number(stamp.mm) <= 59
        /\ 2 * Abs(DecodeError(stamp, seconds.num, seconds.den)) <= seconds.den

===========================================================================
